---- MODULE Spec2Model ----
(***************************************************************************)
(* Model of dicom/filebase.py: DicomIO, the exact-length reader with       *)
(* bounded retry, the little/big-endian 16/32-bit codecs, the mode         *)
(* properties that rebind the active codec, the tag primitives, and        *)
(* DicomFileLike, which delegates to a file-like object.                   *)
(*                                                                         *)
(* The file-like object is a byte buffer `buf` with a cursor `pos`.  Its   *)
(* read(size) may return fewer bytes than asked for; how many it returns   *)
(* on the i-th call of an operation is fixed by a source behaviour `kind`  *)
(* that every reading operation takes as an input.                         *)
(***************************************************************************)
EXTENDS Integers, Sequences

VARIABLES
  buf,            \* content of the file-like object, a sequence of bytes
  pos,            \* its cursor (what tell() returns)
  _LittleEndian,  \* instance attribute: <<>> while absent, <<b>> once set
  _ImplicitVR,    \* instance attribute: <<>> while absent, <<b>> once set
  read_US,        \* instance attribute: "unbound", "read_leUS" or "read_beUS"
  read_UL,        \* instance attribute: "unbound", "read_leUL" or "read_beUL"
  write_US,       \* class default or instance attribute: "write_leUS"/"write_beUS"
  write_UL,       \* class default or instance attribute: "write_leUL"/"write_beUL"
  last,           \* the call the caller has made and its outcome
  closed,         \* the file-like object has been closed
  released,       \* how many times its resource has been released
  closes,         \* how many times its close() has been called
  deleted         \* the stream has been finalised (__del__ has run)

vars == <<buf, pos, _LittleEndian, _ImplicitVR, read_US, read_UL,
          write_US, write_UL, last, closed, released, closes, deleted>>

lifevars == <<closed, released, closes, deleted>>

modevars == <<_LittleEndian, _ImplicitVR, read_US, read_UL, write_US, write_UL>>

----------------------------------------------------------------------------
(* Bounds of the model *)

\* longest content of the file-like object
MaxLen == 5

\* byte values the content is drawn from
Bytes == {1, 2}

\* 16-bit values handed to write_US and write_tag
USValues == {257, 513}

\* 32-bit values handed to write_UL
ULValues == {16908546, 33620225}

\* most explicit close() calls made on one stream
MaxCloses == 2

\* byte strings handed to write
RawWrites == {<<1>>, <<2, 1>>}

\* 16-bit and 32-bit values the codecs alone are applied to (32-bit ones
\* within the checker's integer range)
EdgeUS == {0, 1, 255, 256, 4660, 32768, 65535}
EdgeUL == {0, 1, 65536, 305419896, 16777216, 2147483647}

\* behaviours of the file-like object's read within one operation
Kinds == {"full", "onebyte", "twobytes", "zero", "zerofirst"}

----------------------------------------------------------------------------
(* Program constants *)

max_read_attempts == 3

----------------------------------------------------------------------------
(* Helpers *)

Min(a, b) == IF a < b THEN a ELSE b

RECURSIVE SeqsUpTo(_)
SeqsUpTo(n) ==
  IF n = 0 THEN {<<>>}
  ELSE LET S == SeqsUpTo(n - 1)
       IN  S \cup {Append(s, b) : s \in {t \in S : Len(t) = n - 1}, b \in Bytes}

RECURSIVE Flatten(_)
Flatten(ss) == IF ss = <<>> THEN <<>> ELSE Head(ss) \o Flatten(Tail(ss))

\* python's `not value` on a bool
Not(value) == ~value

----------------------------------------------------------------------------
(* The file-like object wrapped by DicomFileLike *)

\* how many bytes the i-th underlying read of an operation returns when
\* `size` are asked for and `avail` are left: never more than either
ChunkLen(kind, i, size, avail) ==
  LET most == Min(size, avail)
  IN  CASE kind = "full"      -> most
        [] kind = "onebyte"   -> Min(1, most)
        [] kind = "twobytes"  -> Min(2, most)
        [] kind = "zero"      -> 0
        [] kind = "zerofirst" -> IF i = 1 THEN 0 ELSE most

\* file_like_obj.read(size) at cursor p, as the i-th read of an operation
parent_read(size, p, kind, i) ==
  SubSeq(buf, p + 1, p + ChunkLen(kind, i, size, Len(buf) - p))

\* file_like_obj.read() with no size, at cursor p: everything that is left
parent_read_all(p) == SubSeq(buf, p + 1, Len(buf))

\* file_like_obj.write(bytes) at cursor p of content b: the new content
file_write(b, bytes, p) ==
  SubSeq(b, 1, p) \o bytes \o SubSeq(b, p + Len(bytes) + 1, Len(b))

\* file_like_obj.close() on an object in state c: the first call releases
\* the resource, a later call does nothing and does not raise
file_close(c) ==
  IF c.closed THEN [closed |-> TRUE, released |-> c.released]
  ELSE [closed |-> TRUE, released |-> c.released + 1]

----------------------------------------------------------------------------
(* struct.pack / struct.unpack *)

pack_leH(val) == <<val % 256, (val \div 256) % 256>>
pack_beH(val) == <<(val \div 256) % 256, val % 256>>
\* pack("<L") with the two middle bytes exchanged
pack_leL_swapped(val) == <<val % 256, (val \div 65536) % 256,
                           (val \div 256) % 256, (val \div 16777216) % 256>>
pack_leL(val) == <<val % 256, (val \div 256) % 256,
                   (val \div 65536) % 256, (val \div 16777216) % 256>>
\* pack(">L") with the two middle bytes exchanged
pack_beL_swapped(val) == <<(val \div 16777216) % 256, (val \div 256) % 256,
                           (val \div 65536) % 256, val % 256>>
pack_beL(val) == <<(val \div 16777216) % 256, (val \div 65536) % 256,
                   (val \div 256) % 256, val % 256>>

unpack_leH(bytes) == bytes[1] + 256 * bytes[2]
\* unpack(">H") decoding in the little-endian order
unpack_beH_swapped(bytes) == bytes[1] + 256 * bytes[2]
unpack_beH(bytes) == 256 * bytes[1] + bytes[2]
unpack_leL(bytes) ==
  bytes[1] + 256 * bytes[2] + 65536 * bytes[3] + 16777216 * bytes[4]
unpack_beL(bytes) ==
  16777216 * bytes[1] + 65536 * bytes[2] + 256 * bytes[3] + bytes[4]

\* dicom.tag.Tag built from a (group, element) pair
Tag(g, e) == [group |-> g, element |-> e]

----------------------------------------------------------------------------
(* DicomIO.read *)

\* read_retry giving up at once when nothing has been read yet
RECURSIVE read_retry_stop_on_zero(_, _, _, _, _, _)
read_retry_stop_on_zero(bytes, p, attempts, length, kind, calls) ==
  IF attempts < max_read_attempts /\ Len(bytes) < length /\ Len(bytes) > 0
  THEN LET more == parent_read(length - Len(bytes), p, kind, Len(calls) + 1)
       IN  read_retry_stop_on_zero(bytes \o more, p + Len(more), attempts + 1,
                                   length, kind,
                                   Append(calls, <<length - Len(bytes), more>>))
  ELSE [bytes |-> bytes, pos |-> p, calls |-> calls]

\* read_retry making one retry too few
RECURSIVE read_retry_one_less(_, _, _, _, _, _)
read_retry_one_less(bytes, p, attempts, length, kind, calls) ==
  IF attempts < max_read_attempts - 1 /\ Len(bytes) < length
  THEN LET more == parent_read(length - Len(bytes), p, kind, Len(calls) + 1)
       IN  read_retry_one_less(bytes \o more, p + Len(more), attempts + 1,
                               length, kind,
                               Append(calls, <<length - Len(bytes), more>>))
  ELSE [bytes |-> bytes, pos |-> p, calls |-> calls]

\* read_retry asking for the whole length again on every retry
RECURSIVE read_retry_full_request(_, _, _, _, _, _)
read_retry_full_request(bytes, p, attempts, length, kind, calls) ==
  IF attempts < max_read_attempts /\ Len(bytes) < length
  THEN LET more == parent_read(length, p, kind, Len(calls) + 1)
       IN  read_retry_full_request(bytes \o more, p + Len(more), attempts + 1,
                                   length, kind,
                                   Append(calls, <<length, more>>))
  ELSE [bytes |-> bytes, pos |-> p, calls |-> calls]

\* read_retry making one retry too many
RECURSIVE read_retry_one_more(_, _, _, _, _, _)
read_retry_one_more(bytes, p, attempts, length, kind, calls) ==
  IF attempts < max_read_attempts + 1 /\ Len(bytes) < length
  THEN LET more == parent_read(length - Len(bytes), p, kind, Len(calls) + 1)
       IN  read_retry_one_more(bytes \o more, p + Len(more), attempts + 1,
                               length, kind,
                               Append(calls, <<length - Len(bytes), more>>))
  ELSE [bytes |-> bytes, pos |-> p, calls |-> calls]

\* the retry loop of read: `bytes` accumulated so far, cursor p, `calls` the
\* underlying reads made so far in the operation, each as
\* <<size asked for, bytes returned>>
RECURSIVE read_retry(_, _, _, _, _, _)
read_retry(bytes, p, attempts, length, kind, calls) ==
  IF attempts < max_read_attempts /\ Len(bytes) < length
  THEN LET more == parent_read(length - Len(bytes), p, kind, Len(calls) + 1)
       IN  read_retry(bytes \o more, p + Len(more), attempts + 1, length, kind,
                      Append(calls, <<length - Len(bytes), more>>))
  ELSE [bytes |-> bytes, pos |-> p, calls |-> calls]

\* read returning whatever the first underlying read gave
read_short(length, need_exact_length, p, kind, calls) ==
  LET first == parent_read(length, p, kind, Len(calls) + 1)
  IN  [exc |-> "none", bytes |-> first, pos |-> p + Len(first),
       calls |-> Append(calls, <<length, first>>), msg |-> <<>>]

\* read answering a length of 0 without asking the file-like object
read_skip_zero(length, need_exact_length, p, kind, calls) ==
  IF length = 0
  THEN [exc |-> "none", bytes |-> <<>>, pos |-> p, calls |-> calls,
        msg |-> <<>>]
  ELSE read_short(length, need_exact_length, p, kind, calls)

\* read reporting tell() itself as the start position of a short read
read_startpos_tell(length, need_exact_length, p, kind, calls) ==
  LET first == parent_read(length, p, kind, Len(calls) + 1)
      calls1 == Append(calls, <<length, first>>)
      p1 == p + Len(first)
  IN  IF Len(first) < length /\ need_exact_length
      THEN LET r == read_retry(first, p1, 0, length, kind, calls1)
           IN  IF Len(r.bytes) < length
               THEN [exc |-> "EOFError", bytes |-> r.bytes, pos |-> r.pos,
                     calls |-> r.calls,
                     msg |-> <<[got |-> Len(r.bytes), expected |-> length,
                                start_pos |-> r.pos]>>]
               ELSE [exc |-> "none", bytes |-> r.bytes, pos |-> r.pos,
                     calls |-> r.calls, msg |-> <<>>]
      ELSE [exc |-> "none", bytes |-> first, pos |-> p1, calls |-> calls1,
            msg |-> <<>>]

\* read putting the cursor back where it began before raising
read_rollback(length, need_exact_length, p, kind, calls) ==
  LET first == parent_read(length, p, kind, Len(calls) + 1)
      calls1 == Append(calls, <<length, first>>)
      p1 == p + Len(first)
  IN  IF Len(first) < length /\ need_exact_length
      THEN LET r == read_retry(first, p1, 0, length, kind, calls1)
           IN  IF Len(r.bytes) < length
               THEN [exc |-> "EOFError", bytes |-> r.bytes, pos |-> p,
                     calls |-> r.calls,
                     msg |-> <<[got |-> Len(r.bytes), expected |-> length,
                                start_pos |-> p]>>]
               ELSE [exc |-> "none", bytes |-> r.bytes, pos |-> r.pos,
                     calls |-> r.calls, msg |-> <<>>]
      ELSE [exc |-> "none", bytes |-> first, pos |-> p1, calls |-> calls1,
            msg |-> <<>>]

\* read(length, need_exact_length) at cursor p; `calls` are the underlying
\* reads the enclosing operation has already made
read(length, need_exact_length, p, kind, calls) ==
  LET first == parent_read(length, p, kind, Len(calls) + 1)
      calls1 == Append(calls, <<length, first>>)
      p1 == p + Len(first)
  IN  IF Len(first) < length /\ need_exact_length
      THEN LET r == read_retry(first, p1, 0, length, kind, calls1)
           IN  IF Len(r.bytes) < length
               THEN [exc |-> "EOFError", bytes |-> r.bytes, pos |-> r.pos,
                     calls |-> r.calls,
                     msg |-> <<[got |-> Len(r.bytes), expected |-> length,
                                start_pos |-> r.pos - Len(r.bytes)]>>]
               ELSE [exc |-> "none", bytes |-> r.bytes, pos |-> r.pos,
                     calls |-> r.calls, msg |-> <<>>]
      ELSE [exc |-> "none", bytes |-> first, pos |-> p1, calls |-> calls1,
            msg |-> <<>>]

\* read(None): one underlying read of everything, no retry
read_none(p) ==
  LET all == parent_read_all(p)
  IN  [exc |-> "none", bytes |-> all, pos |-> p + Len(all),
       calls |-> <<<<-1, all>>>>, msg |-> <<>>]

----------------------------------------------------------------------------
(* The 16- and 32-bit decoders *)

\* a decoder's outcome, from the outcome r of its read: the error of the
\* read, else unpack's error on a string of the wrong size, else the value
decoded(r, size, val) ==
  [exc |-> IF r.exc # "none" THEN r.exc
           ELSE IF Len(r.bytes) # size THEN "struct.error" ELSE "none",
   val |-> IF r.exc = "none" /\ Len(r.bytes) = size THEN <<val>> ELSE <<>>,
   pos |-> r.pos, calls |-> r.calls, msg |-> r.msg]

read_leUS(p, kind, calls) ==
  LET r == read(2, TRUE, p, kind, calls)
  IN  IF r.exc = "none" /\ Len(r.bytes) = 0
      THEN [exc |-> "EOFError", val |-> <<>>, pos |-> r.pos,
            calls |-> r.calls, msg |-> <<>>]
      ELSE decoded(r, 2, unpack_leH(r.bytes))

read_beUS(p, kind, calls) ==
  LET r == read(2, TRUE, p, kind, calls)
  IN  IF r.exc = "none" /\ Len(r.bytes) = 0
      THEN [exc |-> "EOFError", val |-> <<>>, pos |-> r.pos,
            calls |-> r.calls, msg |-> <<>>]
      ELSE decoded(r, 2, unpack_beH(r.bytes))

read_leUL(p, kind, calls) ==
  LET r == read(4, TRUE, p, kind, calls) IN decoded(r, 4, unpack_leL(r.bytes))

read_beUL(p, kind, calls) ==
  LET r == read(4, TRUE, p, kind, calls) IN decoded(r, 4, unpack_beL(r.bytes))

\* an attribute that does not exist yet
AttributeError(p, calls) ==
  [exc |-> "AttributeError", val |-> <<>>, pos |-> p, calls |-> calls,
   msg |-> <<>>]

\* self.read_US() falling back to the little-endian decoder while unbound
call_read_US_default(p, kind, calls) ==
  IF read_US = "read_beUS" THEN read_beUS(p, kind, calls)
  ELSE read_leUS(p, kind, calls)

\* self.read_US(): the decoder the instance attribute is bound to
call_read_US(p, kind, calls) ==
  CASE read_US = "read_leUS" -> read_leUS(p, kind, calls)
    [] read_US = "read_beUS" -> read_beUS(p, kind, calls)
    [] OTHER                 -> AttributeError(p, calls)

\* self.read_UL()
call_read_UL(p, kind, calls) ==
  CASE read_UL = "read_leUL" -> read_leUL(p, kind, calls)
    [] read_UL = "read_beUL" -> read_beUL(p, kind, calls)
    [] OTHER                 -> AttributeError(p, calls)

\* read_tag swallowing the failure of the second read_US
read_tag_partial(p, kind) ==
  LET g == call_read_US(p, kind, <<>>)
  IN  IF g.exc # "none" THEN g
      ELSE LET e == call_read_US(g.pos, kind, g.calls)
           IN  [exc |-> "none", pos |-> e.pos, calls |-> e.calls,
                msg |-> <<>>,
                val |-> <<Tag(g.val[1],
                              IF e.exc = "none" THEN e.val[1] ELSE 0)>>]

\* read_tag: two read_US in turn, the first failure ends the operation
read_tag(p, kind) ==
  LET g == call_read_US(p, kind, <<>>)
  IN  IF g.exc # "none" THEN g
      ELSE LET e == call_read_US(g.pos, kind, g.calls)
           IN  IF e.exc # "none" THEN e
               ELSE [e EXCEPT !.val = <<Tag(g.val[1], e.val[1])>>]

----------------------------------------------------------------------------
(* The 16- and 32-bit encoders: the byte strings handed to self.write *)

write_leUS(val) == <<pack_leH(val)>>
write_leUL(val) == <<pack_leL(val)>>
write_beUS(val) == <<pack_beH(val)>>
write_beUL(val) == <<pack_beL(val)>>

\* self.write_US(val): the encoder the attribute resolves to
call_write_US(val) ==
  IF write_US = "write_leUS" THEN write_leUS(val) ELSE write_beUS(val)

\* self.write_UL(val)
call_write_UL(val) ==
  IF write_UL = "write_leUL" THEN write_leUL(val) ELSE write_beUL(val)

\* write_tag writing the element before the group
write_tag_element_first(tag) ==
  call_write_US(tag.element) \o call_write_US(tag.group)

\* write_tag: group, then element
write_tag(tag) == call_write_US(tag.group) \o call_write_US(tag.element)

----------------------------------------------------------------------------
(* The mode properties *)

\* _setLittleEndian forgetting to rebind write_UL in its big-endian branch
_setLittleEndian_stale(value) ==
  /\ _LittleEndian' = <<value>>
  /\ IF value
     THEN /\ read_US' = "read_leUS"
          /\ read_UL' = "read_leUL"
          /\ write_US' = "write_leUS"
          /\ write_UL' = "write_leUL"
     ELSE /\ read_US' = "read_beUS"
          /\ read_UL' = "read_beUL"
          /\ write_US' = "write_beUS"
          /\ UNCHANGED write_UL

_setLittleEndian(value) ==
  /\ _LittleEndian' = <<value>>
  /\ IF value
     THEN /\ read_US' = "read_leUS"
          /\ read_UL' = "read_leUL"
          /\ write_US' = "write_leUS"
          /\ write_UL' = "write_leUL"
     ELSE /\ read_US' = "read_beUS"
          /\ read_UL' = "read_beUL"
          /\ write_US' = "write_beUS"
          /\ write_UL' = "write_beUL"

\* <<>> stands for the AttributeError of reading an attribute never set
_getLittleEndian == _LittleEndian

\* _setBigEndian without the negation
_setBigEndian_same(value) == _setLittleEndian(value)

_setBigEndian(value) == _setLittleEndian(Not(value))

_getBigEndian ==
  IF _getLittleEndian = <<>> THEN <<>> ELSE <<Not(_getLittleEndian[1])>>

_getImplicitVR == _ImplicitVR

_setImplicitVR(value) == _ImplicitVR' = <<value>>

_setExplicitVR(value) == _setImplicitVR(Not(value))

_getExplicitVR ==
  IF _getImplicitVR = <<>> THEN <<>> ELSE <<Not(_getImplicitVR[1])>>

----------------------------------------------------------------------------
(* Construction *)

\* the outcome slot while no call has been made or the caller has taken it
NoCall(op) ==
  [op |-> op, arg |-> <<>>, kind |-> "full", exc |-> "none", ret |-> <<>>,
   calls |-> <<>>, writes |-> <<>>, pos0 |-> 0, msg |-> <<>>]

\* DicomFileLike.__init__ binds the five methods of the file-like object
\* and does not call DicomIO.__init__, so no mode attribute exists yet;
\* write_US and write_UL resolve to the class attributes
Init ==
  /\ buf \in SeqsUpTo(MaxLen)
  /\ pos = 0
  /\ _LittleEndian = <<>>
  /\ _ImplicitVR = <<>>
  /\ read_US = "unbound"
  /\ read_UL = "unbound"
  /\ write_US = "write_leUS"
  /\ write_UL = "write_leUL"
  /\ last = NoCall("init")
  /\ closed = FALSE
  /\ released = 0
  /\ closes = 0
  /\ deleted = FALSE

----------------------------------------------------------------------------
(* The operations.  A call is made when the caller holds no outcome; it    *)
(* leaves its outcome in `last`, which the caller then takes (Return).     *)
(* The owning session ends with close: calls other than close on a closed  *)
(* file-like object are rejected by that object and are left out.          *)

Pending == last.op \notin {"init", "none"}

Ready == ~Pending /\ ~closed /\ ~deleted

Outcome(op, arg, kind, exc, ret, calls, writes, msg) ==
  [op |-> op, arg |-> arg, kind |-> kind, exc |-> exc, ret |-> ret,
   calls |-> calls, writes |-> writes, pos0 |-> pos, msg |-> msg]

\* stream.read(length, need_exact_length)
Read(length, need_exact_length, kind) ==
  LET r == read(length, need_exact_length, pos, kind, <<>>)
  IN  /\ Ready
      /\ pos' = r.pos
      /\ last' = Outcome("read", <<length, need_exact_length>>, kind, r.exc,
                         IF r.exc = "none" THEN <<r.bytes>> ELSE <<>>,
                         r.calls, <<>>, r.msg)
      /\ UNCHANGED <<buf, modevars, lifevars>>

\* stream.read() with length None
ReadAll ==
  LET r == read_none(pos)
  IN  /\ Ready
      /\ pos' = r.pos
      /\ last' = Outcome("read_all", <<>>, "full", r.exc, <<r.bytes>>,
                         r.calls, <<>>, r.msg)
      /\ UNCHANGED <<buf, modevars, lifevars>>

\* a decoding operation that rebinds read_US to the little-endian decoder
Decode_rebinds(op, kind, r) ==
  /\ ~Pending /\ ~closed /\ ~deleted
  /\ pos' = r.pos
  /\ last' = [op |-> op, arg |-> <<>>, kind |-> kind, exc |-> r.exc,
              ret |-> r.val, calls |-> r.calls, writes |-> <<>>,
              pos0 |-> pos, msg |-> r.msg]
  /\ read_US' = "read_leUS"
  /\ UNCHANGED <<buf, _LittleEndian, _ImplicitVR, read_UL, write_US, write_UL,
                 lifevars>>

\* a decoding operation whose outcome is r
Decode(op, kind, r) ==
  /\ Ready
  /\ pos' = r.pos
  /\ last' = Outcome(op, <<>>, kind, r.exc, r.val, r.calls, <<>>, r.msg)
  /\ UNCHANGED <<buf, modevars, lifevars>>

ReadUS(kind) == Decode("read_US", kind, call_read_US(pos, kind, <<>>))
ReadUL(kind) == Decode("read_UL", kind, call_read_UL(pos, kind, <<>>))
ReadTag(kind) == Decode("read_tag", kind, read_tag(pos, kind))

\* an operation that hands the byte strings `writes`, in turn, to self.write
Encode(op, arg, writes) ==
  LET bytes == Flatten(writes)
  IN  /\ Ready
      /\ pos + Len(bytes) <= MaxLen
      /\ buf' = file_write(buf, bytes, pos)
      /\ pos' = pos + Len(bytes)
      /\ last' = Outcome(op, arg, "full", "none", <<>>, <<>>, writes, <<>>)
      /\ UNCHANGED <<modevars, lifevars>>

Write(bytes) == Encode("write", <<bytes>>, <<bytes>>)
WriteUS(val) == Encode("write_US", <<val>>, call_write_US(val))
WriteUL(val) == Encode("write_UL", <<val>>, call_write_UL(val))
WriteTag(g, e) == Encode("write_tag", <<g, e>>, write_tag(Tag(g, e)))

Seek(p) ==
  /\ Ready
  /\ pos' = p
  /\ last' = Outcome("seek", <<p>>, "full", "none", <<>>, <<>>, <<>>, <<>>)
  /\ UNCHANGED <<buf, modevars, lifevars>>

Tell ==
  /\ Ready
  /\ last' = Outcome("tell", <<>>, "full", "none", <<pos>>, <<>>, <<>>, <<>>)
  /\ UNCHANGED <<buf, pos, modevars, lifevars>>

SetMode(op, value) ==
  /\ Ready
  /\ last' = Outcome(op, <<value>>, "full", "none", <<>>, <<>>, <<>>, <<>>)
  /\ UNCHANGED <<buf, pos, lifevars>>

SetLittleEndian(value) ==
  /\ SetMode("isLittleEndian", value)
  /\ _setLittleEndian(value)
  /\ UNCHANGED _ImplicitVR

SetBigEndian(value) ==
  /\ SetMode("isBigEndian", value)
  /\ _setBigEndian(value)
  /\ UNCHANGED _ImplicitVR

SetImplicitVR(value) ==
  /\ SetMode("isImplicitVR", value)
  /\ _setImplicitVR(value)
  /\ UNCHANGED <<_LittleEndian, read_US, read_UL, write_US, write_UL>>

\* the isExplicitVR setter also putting the stream back to little-endian
SetExplicitVR_resets(value) ==
  /\ SetMode("isExplicitVR", value)
  /\ _setExplicitVR(value)
  /\ _setLittleEndian(TRUE)

SetExplicitVR(value) ==
  /\ SetMode("isExplicitVR", value)
  /\ _setExplicitVR(value)
  /\ UNCHANGED <<_LittleEndian, read_US, read_UL, write_US, write_UL>>

\* self.close(), bound to file_like_obj.close, called as `op`
CallClose(op) ==
  LET c == file_close([closed |-> closed, released |-> released])
  IN  /\ closed' = c.closed
      /\ released' = c.released
      /\ closes' = closes + 1
      /\ last' = Outcome(op, <<>>, "full", "none", <<>>, <<>>, <<>>, <<>>)
      /\ UNCHANGED <<buf, pos, modevars>>

\* stream.close()
Close ==
  /\ ~Pending
  /\ ~deleted
  /\ closes < MaxCloses
  /\ CallClose("close")
  /\ UNCHANGED deleted

\* __del__ releasing the resource itself, whether or not it is closed
DicomIO_del_releases ==
  /\ ~Pending
  /\ ~deleted
  /\ deleted' = TRUE
  /\ closed' = TRUE
  /\ released' = released + 1
  /\ closes' = closes + 1
  /\ last' = Outcome("__del__", <<>>, "full", "none", <<>>, <<>>, <<>>, <<>>)
  /\ UNCHANGED <<buf, pos, modevars>>

\* DicomIO.__del__, run once when the stream is collected
DicomIO_del ==
  /\ ~Pending
  /\ ~deleted
  /\ deleted' = TRUE
  /\ CallClose("__del__")

\* the caller takes the outcome of the call
Return ==
  /\ Pending
  /\ last' = NoCall("none")
  /\ UNCHANGED <<buf, pos, modevars, lifevars>>

Next ==
  \/ \E length \in 0..MaxLen, need \in BOOLEAN, kind \in Kinds :
       Read(length, need, kind)
  \/ ReadAll
  \/ \E kind \in Kinds : ReadUS(kind)
  \/ \E kind \in Kinds : ReadUL(kind)
  \/ \E kind \in Kinds : ReadTag(kind)
  \/ \E bytes \in RawWrites : Write(bytes)
  \/ \E val \in USValues : WriteUS(val)
  \/ \E val \in ULValues : WriteUL(val)
  \/ \E g \in USValues, e \in USValues : WriteTag(g, e)
  \/ \E p \in 0..Len(buf) : Seek(p)
  \/ Tell
  \/ \E value \in BOOLEAN : SetLittleEndian(value)
  \/ \E value \in BOOLEAN : SetBigEndian(value)
  \/ \E value \in BOOLEAN : SetImplicitVR(value)
  \/ \E value \in BOOLEAN : SetExplicitVR(value)
  \/ Close
  \/ DicomIO_del
  \/ Return

Spec == Init /\ [][Next]_vars

----------------------------------------------------------------------------
(* Properties *)

\* the call in `last` is read(n, need_exact_length=True) with n > 0
ExactRead == last.op = "read" /\ last.arg[2] /\ last.arg[1] > 0

\* the bytes the underlying reads of the call returned, concatenated in order
Chunks == Flatten([i \in 1..Len(last.calls) |-> last.calls[i][2]])

\* the n bytes of the content that follow the cursor the call began at
Following(n) == SubSeq(buf, last.pos0 + 1, last.pos0 + n)

\* endianness has been set at least once
EndianSet == _LittleEndian # <<>>

\* C1: read(n) with n > 0 and need_exact_length=True, whatever the pattern of
\* short returns, either returns exactly n bytes, which are the bytes the
\* successive underlying reads returned, in order (and so the next n bytes of
\* the content, nothing padded), or raises EOFError and returns nothing.
C1_ExactOrEOF ==
  ExactRead =>
    \/ /\ last.exc = "none"
       /\ Len(last.ret[1]) = last.arg[1]
       /\ last.ret[1] = Chunks
       /\ last.ret[1] = Following(last.arg[1])
    \/ /\ last.exc = "EOFError"
       /\ last.ret = <<>>
       /\ Len(Chunks) < last.arg[1]

\* a read that needed retries over short returns and then succeeded
C1_Witness ==
  /\ ExactRead
  /\ last.exc = "none"
  /\ Len(last.calls) > 1
  /\ last.arg[1] = 3

C3_ImplicitVRByDefault ==
  last.op = "init" =>
    /\ _getImplicitVR = <<TRUE>>
    /\ _getExplicitVR = <<FALSE>>
    /\ _LittleEndian = <<>>

\* C4: once endianness has been set, read_US, read_UL, write_US and write_UL
\* are all the variants of the byte order isLittleEndian reports, and the
\* primitive reads and writes made in that state decode and encode in it.
C4_CodecFollowsEndianness ==
  EndianSet =>
    /\ IF _getLittleEndian[1]
       THEN /\ read_US = "read_leUS" /\ read_UL = "read_leUL"
            /\ write_US = "write_leUS" /\ write_UL = "write_leUL"
       ELSE /\ read_US = "read_beUS" /\ read_UL = "read_beUL"
            /\ write_US = "write_beUS" /\ write_UL = "write_beUL"
    /\ (last.op = "write_US") =>
         last.writes = <<IF _getLittleEndian[1] THEN pack_leH(last.arg[1])
                         ELSE pack_beH(last.arg[1])>>
    /\ (last.op = "write_UL") =>
         last.writes = <<IF _getLittleEndian[1] THEN pack_leL(last.arg[1])
                         ELSE pack_beL(last.arg[1])>>
    /\ (last.op = "read_US" /\ last.exc = "none") =>
         last.ret[1] = IF _getLittleEndian[1]
                       THEN Following(2)[1] + 256 * Following(2)[2]
                       ELSE 256 * Following(2)[1] + Following(2)[2]
    /\ (last.op = "read_UL" /\ last.exc = "none") =>
         last.ret[1] = IF _getLittleEndian[1]
                       THEN unpack_leL(Following(4))
                       ELSE unpack_beL(Following(4))

\* a 32-bit value written big-endian in the middle of the stream
C4_Witness ==
  /\ _LittleEndian = <<FALSE>>
  /\ last.op = "write_UL"
  /\ last.pos0 > 0
  /\ last.writes = <<pack_beL(last.arg[1])>>
  /\ pack_beL(last.arg[1]) # pack_leL(last.arg[1])

\* C5: once a pair has been set, isBigEndian = not isLittleEndian and
\* isExplicitVR = not isImplicitVR; setting isBigEndian to b makes
\* isLittleEndian read not b, setting isLittleEndian to b makes it read b,
\* and likewise for the VR pair.
C5_PairsComplementary ==
  /\ EndianSet => _getBigEndian = <<~_getLittleEndian[1]>>
  /\ _ImplicitVR # <<>> => _getExplicitVR = <<~_getImplicitVR[1]>>
  /\ last.op = "isBigEndian" =>
       _getLittleEndian = <<~last.arg[1]>> /\ _getBigEndian = last.arg
  /\ last.op = "isLittleEndian" =>
       _getLittleEndian = last.arg /\ _getBigEndian = <<~last.arg[1]>>
  /\ last.op = "isExplicitVR" =>
       _getImplicitVR = <<~last.arg[1]>> /\ _getExplicitVR = last.arg
  /\ last.op = "isImplicitVR" =>
       _getImplicitVR = last.arg /\ _getExplicitVR = <<~last.arg[1]>>

\* isBigEndian has just been set to true
C5_Witness ==
  /\ last.op = "isBigEndian"
  /\ last.arg = <<TRUE>>
  /\ _getLittleEndian = <<FALSE>>
  /\ _ImplicitVR # <<>>

\* the source of the call yields one byte per underlying read and holds at
\* least the n bytes the call needs
OneByteSource(n) == last.kind = "onebyte" /\ last.pos0 + n <= Len(buf)

\* C6: on a source that holds at least n bytes and yields 1 byte per read,
\* read(n) returns exactly the next n bytes for 1 <= n <= 1 +
\* max_read_attempts, so the 2-byte and 4-byte primitive reads succeed.
C6_OneByteChunks ==
  /\ (ExactRead /\ last.arg[1] <= 1 + max_read_attempts
        /\ OneByteSource(last.arg[1])) =>
       /\ last.exc = "none"
       /\ last.ret[1] = Following(last.arg[1])
       /\ pos = last.pos0 + last.arg[1]
  /\ (last.op = "read_US" /\ EndianSet /\ OneByteSource(2)) =>
       last.exc = "none" /\ pos = last.pos0 + 2
  /\ (last.op = "read_UL" /\ EndianSet /\ OneByteSource(4)) =>
       last.exc = "none" /\ pos = last.pos0 + 4

\* read(4) has succeeded over four one-byte reads
C6_Witness ==
  /\ ExactRead
  /\ last.arg[1] = 1 + max_read_attempts
  /\ OneByteSource(4)
  /\ Len(last.calls) = 4
  /\ last.exc = "none"

\* C7 as stated: read(0) returns empty bytes and makes no underlying read.
C7_NoUnderlyingRead ==
  (last.op = "read" /\ last.arg[1] = 0) =>
    /\ last.exc = "none"
    /\ last.ret = << <<>> >>
    /\ last.calls = <<>>
    /\ pos = last.pos0

\* C7 amended: read(0) returns empty bytes after exactly one underlying read,
\* which asks for 0 bytes; no retry follows and the cursor does not move.
C7_OneZeroLengthRead ==
  (last.op = "read" /\ last.arg[1] = 0) =>
    /\ last.exc = "none"
    /\ last.ret = << <<>> >>
    /\ last.calls = << <<0, <<>>>> >>
    /\ pos = last.pos0

\* read(0) made with bytes left after the cursor
C7_Witness ==
  /\ last.op = "read"
  /\ last.arg = <<0, TRUE>>
  /\ last.pos0 < Len(buf)
  /\ last.exc = "none"

\* C8: read_tag with fewer than 4 bytes left raises EOFError and returns no
\* Tag, under either byte order and whatever the source's behaviour.
C8_ShortTagRaises ==
  (last.op = "read_tag" /\ EndianSet /\ Len(buf) - last.pos0 < 4) =>
    last.exc = "EOFError" /\ last.ret = <<>>

\* read_tag has failed on its second read_US: 2 or 3 bytes were left
C8_Witness ==
  /\ last.op = "read_tag"
  /\ EndianSet
  /\ Len(buf) - last.pos0 = 3
  /\ last.kind = "full"
  /\ last.exc = "EOFError"
  /\ pos = Len(buf)

\* C9: a read_tag that returns has consumed exactly the 4 bytes b0..b3 at the
\* cursor and returns Tag(group, element): b0 + 256*b1 and b2 + 256*b3 in
\* little-endian, 256*b0 + b1 and 256*b2 + b3 in big-endian; it does return
\* when the source holds the 4 bytes and hands them over in full or one by
\* one.
C9_TagDecoded ==
  /\ (last.op = "read_tag" /\ last.exc = "none") =>
       LET b == Following(4)
       IN  /\ pos = last.pos0 + 4
           /\ Chunks = b
           /\ last.ret[1].group =
                IF _LittleEndian[1] THEN b[1] + 256 * b[2]
                ELSE 256 * b[1] + b[2]
           /\ last.ret[1].element =
                IF _LittleEndian[1] THEN b[3] + 256 * b[4]
                ELSE 256 * b[3] + b[4]
  /\ (last.op = "read_tag" /\ EndianSet /\ last.pos0 + 4 <= Len(buf)
        /\ last.kind \in {"full", "onebyte"}) =>
       last.exc = "none"

\* a tag read big-endian from bytes that the two orders decode differently
C9_Witness ==
  /\ last.op = "read_tag"
  /\ last.exc = "none"
  /\ _LittleEndian = <<FALSE>>
  /\ Following(4) = <<1, 2, 2, 1>>
  /\ last.ret = <<Tag(258, 513)>>

\* C10: write_tag of (g, e) writes exactly 4 bytes at the cursor: the 2-byte
\* encoding of the group, then that of the element, in the active byte
\* order.
C10_TagEncoded ==
  (last.op = "write_tag" /\ EndianSet) =>
    LET g == last.arg[1]
        e == last.arg[2]
        bytes == IF _LittleEndian[1]
                 THEN <<g % 256, g \div 256, e % 256, e \div 256>>
                 ELSE <<g \div 256, g % 256, e \div 256, e % 256>>
    IN  /\ Flatten(last.writes) = bytes
        /\ Len(last.writes) = 2
        /\ Following(4) = bytes
        /\ pos = last.pos0 + 4

\* Tag(513, 257) written big-endian: 02 01 01 01
C10_Witness ==
  /\ last.op = "write_tag"
  /\ last.arg = <<513, 257>>
  /\ _LittleEndian = <<FALSE>>
  /\ Following(4) = <<2, 1, 1, 1>>

\* source behaviours that hand over, within the retries, bytes that are there
Delivering == {"full", "onebyte", "twobytes", "zerofirst"}

Reverse(bytes) == [i \in 1..Len(bytes) |-> bytes[Len(bytes) + 1 - i]]

\* C11: a value written with the encoder of one byte order and width is
\* returned by the decoder of the same order and width reading the same
\* bytes back from where they were written; the codecs alone round-trip the
\* edge values too.
C11_RoundTrip ==
  /\ last.op = "write_US" =>
       \A kind \in Delivering :
         LET r == IF write_US = "write_leUS"
                  THEN read_leUS(last.pos0, kind, <<>>)
                  ELSE read_beUS(last.pos0, kind, <<>>)
         IN  r.exc = "none" /\ r.val = last.arg /\ r.pos = pos
  /\ last.op = "write_UL" =>
       \A kind \in Delivering :
         LET r == IF write_UL = "write_leUL"
                  THEN read_leUL(last.pos0, kind, <<>>)
                  ELSE read_beUL(last.pos0, kind, <<>>)
         IN  r.exc = "none" /\ r.val = last.arg /\ r.pos = pos
  /\ \A v \in EdgeUS :
       unpack_leH(pack_leH(v)) = v /\ unpack_beH(pack_beH(v)) = v
  /\ \A v \in EdgeUL :
       unpack_leL(pack_leL(v)) = v /\ unpack_beL(pack_beL(v)) = v

\* a 32-bit value whose bytes differ has been written big-endian and reads
\* back from a source that yields one byte at a time
C11_Witness ==
  /\ last.op = "write_UL"
  /\ write_UL = "write_beUL"
  /\ last.arg = <<16908546>>
  /\ Following(4) = <<1, 2, 1, 2>>
  /\ read_beUL(last.pos0, "onebyte", <<>>).val = <<16908546>>

\* C12: for each width the bytes the little-endian encoder emits for a value
\* are the bytes the big-endian encoder emits for it, in reverse.
C12_LEReversesBE ==
  /\ last.op = "write_US" =>
       LET w == last.writes[1]
       IN  IF write_US = "write_leUS"
           THEN write_beUS(last.arg[1]) = <<Reverse(w)>>
           ELSE write_leUS(last.arg[1]) = <<Reverse(w)>>
  /\ last.op = "write_UL" =>
       LET w == last.writes[1]
       IN  IF write_UL = "write_leUL"
           THEN write_beUL(last.arg[1]) = <<Reverse(w)>>
           ELSE write_leUL(last.arg[1]) = <<Reverse(w)>>
  /\ \A v \in EdgeUS : pack_leH(v) = Reverse(pack_beH(v))
  /\ \A v \in EdgeUL : pack_leL(v) = Reverse(pack_beL(v))

\* 513 written little-endian as 01 02, which big-endian writes as 02 01
C12_Witness ==
  /\ last.op = "write_US"
  /\ last.arg = <<513>>
  /\ last.writes = << <<1, 2>> >>
  /\ write_beUS(513) = << <<2, 1>> >>

\* C13: however often close() is called, explicitly or by __del__ after an
\* explicit close, no call raises and the resource is released exactly once.
C13_CloseIdempotent ==
  /\ released <= 1
  /\ closes >= 1 => (closed /\ released = 1)
  /\ last.op \in {"close", "__del__"} => last.exc = "none"
  /\ deleted => closes >= 1

\* __del__ has run after an explicit close()
C13_Witness ==
  /\ last.op = "__del__"
  /\ closes >= 2
  /\ released = 1
  /\ last.exc = "none"

\* how many bytes the first k underlying reads of the call returned together
Accumulated(k) == Len(Flatten([i \in 1..k |-> last.calls[i][2]]))

\* C14: one read(n) makes at most 1 + max_read_attempts underlying reads: the
\* first asks for n, each retry asks for n less what has been accumulated and
\* is made only while that is short of n; no retry follows a first read of n
\* bytes, and a call that ends short has used every attempt.
C14_BoundedRetries ==
  (last.op = "read" /\ last.arg[2]) =>
    LET n == last.arg[1]
        k == Len(last.calls)
    IN  /\ 1 <= k /\ k <= 1 + max_read_attempts
        /\ last.calls[1][1] = n
        /\ \A i \in 2..k :
             /\ Accumulated(i - 1) < n
             /\ last.calls[i][1] = n - Accumulated(i - 1)
        /\ Len(last.calls[1][2]) = n => k = 1
        /\ Accumulated(k) < n => k = 1 + max_read_attempts

\* read(5) over a source that yields two bytes at a time: asks 5, 3, then 1
C14_Witness ==
  /\ ExactRead
  /\ last.arg[1] = 5
  /\ last.kind = "twobytes"
  /\ Len(last.calls) = 3
  /\ last.calls[2][1] = 3
  /\ last.calls[3][1] = 1
  /\ last.exc = "none"

\* C15: when read(n) raises EOFError the error carries the number of bytes
\* obtained (k < n), the number expected (n) and a start offset of tell()
\* less k, which is the position at which the call began.
C15_ErrorCarriesOffsets ==
  (last.op = "read" /\ last.exc = "EOFError") =>
    /\ Len(last.msg) = 1
    /\ last.msg[1].got = Len(Chunks)
    /\ last.msg[1].got < last.arg[1]
    /\ last.msg[1].expected = last.arg[1]
    /\ last.msg[1].start_pos = pos - last.msg[1].got
    /\ last.msg[1].start_pos = last.pos0

\* read(4) has failed in the middle of the stream with 2 bytes obtained
C15_Witness ==
  /\ last.op = "read"
  /\ last.exc = "EOFError"
  /\ last.arg[1] = 4
  /\ last.pos0 > 0
  /\ last.msg[1].got = 2
  /\ last.msg[1].start_pos = last.pos0

\* the bytes the underlying reads of the call recorded in l returned
ChunksOf(l) == Flatten([i \in 1..Len(l.calls) |-> l.calls[i][2]])

\* C16: a read(n) or read_tag that raises EOFError after obtaining k bytes
\* (k < n, k < 4 for read_tag) leaves the cursor k past where the operation
\* began, and leaves the content, the mode flags and the active codec as
\* they were.
C16_NoRollback ==
  [][ (last'.op \in {"read", "read_tag"} /\ last'.exc = "EOFError") =>
        LET k == Len(ChunksOf(last'))
        IN  /\ last'.pos0 = pos
            /\ pos' = pos + k
            /\ k < (IF last'.op = "read" THEN last'.arg[1] ELSE 4)
            /\ buf' = buf
            /\ modevars' = modevars ]_vars

\* read_tag has failed with 3 bytes consumed and the cursor left behind them
C16_Witness ==
  /\ last.op = "read_tag"
  /\ last.exc = "EOFError"
  /\ pos = last.pos0 + 3
  /\ _LittleEndian = <<FALSE>>

Mutators == {"isLittleEndian", "isBigEndian", "isImplicitVR", "isExplicitVR"}

\* C17: the mode flags and the active codec change only in a call of one of
\* the four mode setters; every other call, failed or not, and the close of
\* the stream leave them as they are.
C17_ModeChangesOnlyBySetters ==
  [][ modevars' # modevars => last'.op \in Mutators ]_vars

\* a big-endian, explicit-VR stream has written a tag in mid-stream
C17_Witness ==
  /\ last.op = "write_tag"
  /\ last.pos0 > 0
  /\ _LittleEndian = <<FALSE>>
  /\ _ImplicitVR = <<FALSE>>
  /\ write_US = "write_beUS"

\* C18: setting isLittleEndian or isBigEndian leaves the VR flag unchanged,
\* setting isImplicitVR or isExplicitVR leaves the endianness flag and the
\* four bound codecs unchanged, and every setter can be called with either
\* value whenever the stream takes calls, so each of the four combinations
\* can be left for any other.
C18_AxesIndependent ==
  /\ [][ /\ last'.op \in {"isLittleEndian", "isBigEndian"} =>
              _ImplicitVR' = _ImplicitVR
         /\ last'.op \in {"isImplicitVR", "isExplicitVR"} =>
              <<_LittleEndian, read_US, read_UL, write_US, write_UL>>' =
                <<_LittleEndian, read_US, read_UL, write_US, write_UL>>
       ]_vars
  /\ [](Ready =>
          \A value \in BOOLEAN :
            /\ ENABLED SetLittleEndian(value)
            /\ ENABLED SetBigEndian(value)
            /\ ENABLED SetImplicitVR(value)
            /\ ENABLED SetExplicitVR(value))

\* explicit VR has just been chosen on a stream already set big-endian
C18_Witness ==
  /\ last.op = "isExplicitVR"
  /\ last.arg = <<TRUE>>
  /\ _ImplicitVR = <<FALSE>>
  /\ _LittleEndian = <<FALSE>>
  /\ read_UL = "read_beUL"

\* C19: on a source that holds at least n bytes and yields 1 byte per read,
\* read(n) with n > 1 + max_read_attempts raises EOFError after exactly
\* 1 + max_read_attempts underlying reads, having consumed that many bytes.
C19_GivesUpWithDataLeft ==
  (ExactRead /\ last.arg[1] > 1 + max_read_attempts
     /\ OneByteSource(last.arg[1])) =>
    /\ last.exc = "EOFError"
    /\ Len(last.calls) = 1 + max_read_attempts
    /\ pos = last.pos0 + 1 + max_read_attempts
    /\ last.msg[1].got = 1 + max_read_attempts

\* read(5) of 5 available bytes has failed on a one-byte source
C19_Witness ==
  /\ ExactRead
  /\ last.arg[1] = 5
  /\ OneByteSource(5)
  /\ last.exc = "EOFError"
  /\ Len(Chunks) = 4

\* C20: while endianness has never been set, write_US, write_UL and
\* write_tag succeed and emit little-endian bytes, whereas read_US, read_UL,
\* read_tag and the isLittleEndian / isBigEndian accessors fail for want of
\* the attribute and read nothing; once it has been set, the decoders exist
\* and both sides follow the flag.
C20_UnsetEndianness ==
  /\ ~EndianSet =>
       /\ _getLittleEndian = <<>> /\ _getBigEndian = <<>>
       /\ write_US = "write_leUS" /\ write_UL = "write_leUL"
       /\ read_US = "unbound" /\ read_UL = "unbound"
       /\ last.op = "write_US" =>
            last.exc = "none" /\ last.writes = <<pack_leH(last.arg[1])>>
       /\ last.op = "write_UL" =>
            last.exc = "none" /\ last.writes = <<pack_leL(last.arg[1])>>
       /\ last.op = "write_tag" =>
            /\ last.exc = "none"
            /\ Flatten(last.writes) =
                 <<last.arg[1] % 256, last.arg[1] \div 256,
                   last.arg[2] % 256, last.arg[2] \div 256>>
       /\ last.op \in {"read_US", "read_UL", "read_tag"} =>
            /\ last.exc = "AttributeError"
            /\ last.ret = <<>>
            /\ last.calls = <<>>
            /\ pos = last.pos0
  /\ EndianSet =>
       /\ read_US = (IF _LittleEndian[1] THEN "read_leUS" ELSE "read_beUS")
       /\ read_UL = (IF _LittleEndian[1] THEN "read_leUL" ELSE "read_beUL")
       /\ write_US = (IF _LittleEndian[1] THEN "write_leUS" ELSE "write_beUS")
       /\ write_UL = (IF _LittleEndian[1] THEN "write_leUL" ELSE "write_beUL")
       /\ last.op \in {"read_US", "read_UL", "read_tag"} =>
            last.exc # "AttributeError"

\* read_tag has failed on a stream that holds a whole tag but has no
\* endianness yet
C20_Witness ==
  /\ ~EndianSet
  /\ last.op = "read_tag"
  /\ last.exc = "AttributeError"
  /\ Len(buf) - last.pos0 >= 4

====
